---- MODULE Spec2Model ----
(***************************************************************************)
(* Model of bond_pricer.c: parse_arguments, calculate_bond_metrics,        *)
(* print_results and main.                                                 *)
(*                                                                         *)
(* The program computes in C `double`, so the model carries IEEE-754       *)
(* binary64 values with round-to-nearest-even, overflow to infinity,       *)
(* gradual underflow, signed zero and NaN.  A 53-bit significand does not  *)
(* fit the model checker's integers, so significands are arbitrary         *)
(* precision naturals kept as little-endian sequences of limbs.            *)
(***************************************************************************)
EXTENDS Integers, Sequences, FiniteSets

(***************************************************************************)
(* Arbitrary-precision naturals: little-endian limbs in base LimbBase,     *)
(* no leading (most significant) zero limb; zero is the empty sequence.    *)
(* An intermediate value that an operator uses more than once is handed    *)
(* to a further operator as an argument.                                   *)
(***************************************************************************)
LimbBits == 15
LimbBase == 32768

\* 2^k for 0 <= k <= LimbBits
Pow2(k) ==
    <<1, 2, 4, 8, 16, 32, 64, 128, 256, 512, 1024, 2048, 4096, 8192, 16384,
      32768>>[k + 1]

RECURSIVE IntBitLen(_)
IntBitLen(x) == IF x = 0 THEN 0 ELSE 1 + IntBitLen(x \div 2)

Limb(a, i) == IF i <= Len(a) THEN a[i] ELSE 0

Max(x, y) == IF x >= y THEN x ELSE y
Min(x, y) == IF x <= y THEN x ELSE y

\* the number of limbs of s from limb n down that pass the test ok, which
\* is a function from limbs to BOOLEAN
Run(ok, n) ==
    CHOOSE k \in 0..n :
        /\ k = n \/ ~ok[n - k]
        /\ \A j \in 0..(k - 1) : ok[n - j]

\* a without its leading zero limbs
BigNorm(a) == SubSeq(a, 1, Len(a) - Run([i \in 1..Len(a) |-> a[i] = 0], Len(a)))

RECURSIVE BigFromInt(_)
BigFromInt(x) ==
    IF x = 0 THEN <<>> ELSE <<x % LimbBase>> \o BigFromInt(x \div LimbBase)

\* the carry into limb i of the limb sums s: generated by the first limb
\* below that is not full, and handed on by the full limbs between
CarryAt(s, j) == IF j >= 1 /\ s[j] >= LimbBase THEN 1 ELSE 0
CarryIn(s, i) ==
    CarryAt(s, i - 1 - Run([j \in 1..Len(s) |-> s[j] = LimbBase - 1], i - 1))

Propagate(s) == BigNorm([i \in 1..Len(s) |-> (s[i] + CarryIn(s, i)) % LimbBase])

\* a + b
BigAdd(a, b) ==
    Propagate([i \in 1..(Max(Len(a), Len(b)) + 1) |-> Limb(a, i) + Limb(b, i)])

\* the borrow from limb i of the limb differences s
BorrowAt(s, j) == IF j >= 1 /\ s[j] < 0 THEN 1 ELSE 0
BorrowIn(s, i) ==
    BorrowAt(s, i - 1 - Run([j \in 1..Len(s) |-> s[j] = 0], i - 1))

Settle(s) ==
    BigNorm([i \in 1..Len(s) |-> (s[i] - BorrowIn(s, i) + LimbBase) % LimbBase])

\* a - b for a >= b
BigSub(a, b) == Settle([i \in 1..Len(a) |-> a[i] - Limb(b, i)])

\* -1, 0, 1 as a < b, a = b, a > b, for a and b of one length that differ
\* last at limb i (i = 0: nowhere)
SignAt(a, b, i) == IF i = 0 THEN 0 ELSE IF a[i] < b[i] THEN -1 ELSE 1

BigCmp(a, b) ==
    IF Len(a) < Len(b) THEN -1
    ELSE IF Len(a) > Len(b) THEN 1
    ELSE SignAt(a, b, Len(a) - Run([i \in 1..Len(a) |-> a[i] = b[i]], Len(a)))

\* a * k for 0 <= k < LimbBase: low and high halves of the limb products
BigMulLimb(a, k) ==
    BigAdd([i \in 1..Len(a) |-> (a[i] * k) % LimbBase],
           <<0>> \o [i \in 1..Len(a) |-> (a[i] * k) \div LimbBase])

ZeroLimbs(n) == [i \in 1..n |-> 0]

\* sum of the rows a * b[j] * LimbBase^(j-1) for j in lo..hi
RECURSIVE BigMulRows(_, _, _, _)
BigMulRows(a, b, lo, hi) ==
    IF lo = hi
    THEN (IF b[lo] = 0 THEN <<>> ELSE ZeroLimbs(lo - 1) \o BigMulLimb(a, b[lo]))
    ELSE BigAdd(BigMulRows(a, b, lo, (lo + hi) \div 2),
                BigMulRows(a, b, (lo + hi) \div 2 + 1, hi))

\* a * b, by the rows of the shorter factor
BigMul(a, b) ==
    IF a = <<>> \/ b = <<>> THEN <<>>
    ELSE IF Len(a) < Len(b) THEN BigMulRows(b, a, 1, Len(a))
    ELSE BigMulRows(a, b, 1, Len(b))

BigBitLen(a) ==
    IF a = <<>> THEN 0 ELSE LimbBits * (Len(a) - 1) + IntBitLen(a[Len(a)])

\* bit i of a, bit 0 the least significant
BigBit(a, i) == (Limb(a, i \div LimbBits + 1) \div Pow2(i % LimbBits)) % 2

\* a * 2^k
BigShl(a, k) ==
    IF a = <<>> THEN <<>>
    ELSE ZeroLimbs(k \div LimbBits) \o BigMulLimb(a, Pow2(k % LimbBits))

\* floor(a / 2^(LimbBits * q + r)) for 0 <= r < LimbBits
ShrLimbs(a, q, r) ==
    BigNorm([i \in 1..Max(0, Len(a) - q) |->
                (a[q + i] \div Pow2(r))
                    + (Limb(a, q + i + 1) % Pow2(r)) * Pow2(LimbBits - r)])

\* floor(a / 2^k)
BigShr(a, k) == ShrLimbs(a, k \div LimbBits, k % LimbBits)

\* TRUE iff the low k bits of a are all zero
BigLowZero(a, k) ==
    /\ \A i \in 1..(k \div LimbBits) : Limb(a, i) = 0
    /\ Limb(a, k \div LimbBits + 1) % Pow2(k % LimbBits) = 0

\* The quotient digit floor(r / d) for r < d * LimbBase, where the top limb of
\* d is at least LimbBase / 2: the two top limbs of r over the top limb of d
\* give a trial digit at most two too large, which is then brought down.
RECURSIVE FixDigit(_, _, _)
FixDigit(r, d, q) ==
    IF BigCmp(BigMulLimb(d, q), r) <= 0 THEN q ELSE FixDigit(r, d, q - 1)

QuotDigit(r, d) ==
    FixDigit(r, d,
             Min(LimbBase - 1,
                 (Limb(r, Len(d) + 1) * LimbBase + Limb(r, Len(d)))
                     \div d[Len(d)]))

\* one step of long division: the remainder so far with the next limb of n
\* below it, divided by d
DivDigit(r2, d, qd) == [q |-> <<qd>>, r |-> BigSub(r2, BigMulLimb(d, qd))]
DivLimb(r2, d) == DivDigit(r2, d, QuotDigit(r2, d))

\* long division over the limbs hi down to lo of n, r the remainder of the
\* limbs above hi: the upper half of the limbs first, then the lower half
\* (the test on Len settles the upper half before the lower is begun)
RECURSIVE BigDivModAt(_, _, _, _, _)
DivJoin(upper, lower) == [q |-> lower.q \o upper.q, r |-> lower.r]
DivLower(n, d, mid, lo, upper) ==
    IF Len(upper.r) < 0 THEN upper
    ELSE DivJoin(upper, BigDivModAt(n, d, mid, lo, upper.r))
BigDivModAt(n, d, hi, lo, r) ==
    IF hi < lo THEN [q |-> <<>>, r |-> r]
    ELSE IF hi = lo THEN DivLimb(BigNorm(<<n[hi]>> \o r), d)
    ELSE DivLower(n, d, (hi + lo) \div 2, lo,
                  BigDivModAt(n, d, hi, (hi + lo) \div 2 + 1, r))

\* x, the quotient and remainder of n * 2^sh and d * 2^sh, as that of n and d,
\* the quotient without its leading zero limbs
Unshift(x, sh) == [q |-> BigNorm(x.q), r |-> BigShr(x.r, sh)]

DivNormal(n, d, sh) ==
    Unshift(BigDivModAt(n, d, Len(n), 1, <<>>), sh)

DivShifted(n, d, sh) == DivNormal(BigShl(n, sh), BigShl(d, sh), sh)

\* floor(n / d) and n mod d for d > 0: both are shifted left until the top
\* limb of d is at least LimbBase / 2, which leaves the quotient as it is
BigDivMod(n, d) == DivShifted(n, d, LimbBits - IntBitLen(d[Len(d)]))

BigSquare(a) == BigMul(a, a)

\* a^k by repeated squaring
RECURSIVE BigPow(_, _)
BigPow(a, k) ==
    IF k = 0 THEN <<1>>
    ELSE BigMul(BigSquare(BigPow(a, k \div 2)), IF k % 2 = 1 THEN a ELSE <<1>>)

(***************************************************************************)
(* C double (IEEE-754 binary64).  A finite value is (-1)^neg * m * 2^e     *)
(* with m < 2^MantBits and MinExp <= e <= MaxExp; m has exactly MantBits   *)
(* bits unless e = MinExp (subnormal); zero has m = <<>> and e = 0.        *)
(***************************************************************************)
MantBits == 53
MinExp == -1074
MaxExp == 971

NaN == [cls |-> "nan", neg |-> FALSE, m |-> <<>>, e |-> 0]
Inf(neg) == [cls |-> "inf", neg |-> neg, m |-> <<>>, e |-> 0]
Zero(neg) == [cls |-> "fin", neg |-> neg, m |-> <<>>, e |-> 0]
Fin(neg, m, e) == [cls |-> "fin", neg |-> neg, m |-> m, e |-> e]

IsNaN(a) == a.cls = "nan"
IsInf(a) == a.cls = "inf"
IsFin(a) == a.cls = "fin"
IsZero(a) == a.cls = "fin" /\ a.m = <<>>

\* the result of a rounding: the double, whether it differs from the exact
\* value, and whether the exact value lies beyond the largest double
Overflowed(neg) == [val |-> Inf(neg), inexact |-> TRUE, over |-> TRUE]

Packed(neg, q, e, inex) ==
    IF e > MaxExp THEN Overflowed(neg)
    ELSE IF q = <<>> THEN [val |-> Zero(neg), inexact |-> inex, over |-> FALSE]
    ELSE [val |-> Fin(neg, q, e), inexact |-> inex, over |-> FALSE]

\* a rounded significand that has grown to MantBits + 1 bits is halved
Renormal(neg, q, e, inex) ==
    IF BigBitLen(q) > MantBits
    THEN Packed(neg, BigShr(q, 1), e + 1, inex)
    ELSE Packed(neg, q, e, inex)

\* q with the bits below it summed up as the guard bit g and the rest:
\* up on more than half, and on half when q is odd
RoundEven(neg, q, e, g, rest) ==
    Renormal(neg, IF g /\ (rest \/ BigBit(q, 0) = 1) THEN BigAdd(q, <<1>>) ELSE q,
             e, g \/ rest)

\* the same with the last place of the result at 2^e1
RoundAt(neg, m, e, sticky, e1) ==
    IF e1 <= e
    THEN IF e1 > MaxExp THEN Overflowed(neg)
         ELSE [val |-> Fin(neg, BigShl(m, e - e1), e1),
               inexact |-> sticky, over |-> FALSE]
    ELSE RoundEven(neg, BigShr(m, e1 - e), e1, BigBit(m, e1 - e - 1) = 1,
                   sticky \/ ~BigLowZero(m, e1 - e - 1))

\* Round (-1)^neg * (m * 2^e + s) to the nearest double, ties to even, where
\* 0 <= s < 2^e and s > 0 iff sticky.  Callers that pass sticky pass at least
\* MantBits + 2 bits in m.
RoundBin(neg, m, e, sticky) ==
    IF m = <<>> THEN [val |-> Zero(neg), inexact |-> sticky, over |-> FALSE]
    ELSE RoundAt(neg, m, e, sticky, Max(e + BigBitLen(m) - MantBits, MinExp))

\* an exact value (neg, m, e) as a double
RoundExact(x) == RoundBin(x.neg, x.m, x.e, FALSE).val

\* position of the bit above the most significant bit of a finite nonzero value
TopBit(a) == a.e + BigBitLen(a.m)

\* compare magnitudes of two finite values: -1, 0, 1
MagCmp(a, b) ==
    IF a.m = <<>> /\ b.m = <<>> THEN 0
    ELSE IF a.m = <<>> THEN -1
    ELSE IF b.m = <<>> THEN 1
    ELSE IF TopBit(a) < TopBit(b) THEN -1
    ELSE IF TopBit(a) > TopBit(b) THEN 1
    ELSE BigCmp(BigShl(a.m, a.e - Min(a.e, b.e)),
                BigShl(b.m, b.e - Min(a.e, b.e)))

\* am * 2^lo - bm * 2^lo with the sign an, for c the comparison of am and bm
SubAligned(an, am, bm, lo, c) ==
    IF c = 0 THEN [neg |-> FALSE, m |-> <<>>, e |-> 0]
    ELSE IF c > 0 THEN [neg |-> an, m |-> BigSub(am, bm), e |-> lo]
    ELSE [neg |-> ~an, m |-> BigSub(bm, am), e |-> lo]

AddAligned(an, am, bn, bm, lo) ==
    IF an = bn THEN [neg |-> an, m |-> BigAdd(am, bm), e |-> lo]
    ELSE SubAligned(an, am, bm, lo, BigCmp(am, bm))

\* exact sum of two finite values, as an unrounded (neg, m, e)
ExactAdd(a, b) ==
    AddAligned(a.neg, BigShl(a.m, a.e - Min(a.e, b.e)),
               b.neg, BigShl(b.m, b.e - Min(a.e, b.e)), Min(a.e, b.e))

ExactMul(a, b) ==
    [neg |-> a.neg # b.neg, m |-> BigMul(a.m, b.m),
     e |-> IF a.m = <<>> \/ b.m = <<>> THEN 0 ELSE a.e + b.e]

\* A nonzero addend lying wholly below a quarter of the last place of the
\* other operand rounds as any such addend does: stand in for it by an
\* eighth of that last place, so that the alignment shift stays short.
Tiny(b, a) == Fin(b.neg, <<1>>, a.e - 3)
Below(b, a) == b.m # <<>> /\ a.m # <<>> /\ TopBit(b) < a.e - 2

\* a + b in double
FAdd(a, b) ==
    IF IsNaN(a) \/ IsNaN(b) THEN NaN
    ELSE IF IsInf(a) /\ IsInf(b) THEN (IF a.neg = b.neg THEN a ELSE NaN)
    ELSE IF IsInf(a) THEN a
    ELSE IF IsInf(b) THEN b
    ELSE IF a.m = <<>> /\ b.m = <<>> THEN Zero(a.neg /\ b.neg)
    ELSE RoundExact(ExactAdd(IF Below(a, b) THEN Tiny(a, b) ELSE a,
                             IF Below(b, a) THEN Tiny(b, a) ELSE b))

\* a * b in double
FMul(a, b) ==
    IF IsNaN(a) \/ IsNaN(b) THEN NaN
    ELSE IF IsInf(a) \/ IsInf(b)
    THEN (IF IsZero(a) \/ IsZero(b) THEN NaN ELSE Inf(a.neg # b.neg))
    ELSE RoundExact(ExactMul(a, b))

\* the quotient and remainder d of a division, at last place 2^e, rounded
RoundQuot(neg, d, e) == RoundBin(neg, d.q, e, d.r # <<>>)

\* n / d for naturals n and d > 0, times 2^e: n is shifted left by k bits
\* so that the quotient has MantBits + 2 bits or more
DivAt(neg, n, d, e, k) == RoundQuot(neg, BigDivMod(BigShl(n, k), d), e - k)

DivRound(neg, n, d, e) ==
    DivAt(neg, n, d, e, Max(0, MantBits + 3 + BigBitLen(d) - BigBitLen(n)))

\* a / b in double
FDiv(a, b) ==
    IF IsNaN(a) \/ IsNaN(b) THEN NaN
    ELSE IF IsInf(a) THEN (IF IsInf(b) THEN NaN ELSE Inf(a.neg # b.neg))
    ELSE IF IsInf(b) THEN Zero(a.neg # b.neg)
    ELSE IF b.m = <<>> THEN (IF a.m = <<>> THEN NaN ELSE Inf(a.neg # b.neg))
    ELSE IF a.m = <<>> THEN Zero(a.neg # b.neg)
    ELSE DivRound(a.neg # b.neg, a.m, b.m, a.e - b.e).val

\* (double) i for a C int i
FromInt(i) ==
    IF i = 0 THEN Zero(FALSE)
    ELSE RoundBin(i < 0, BigFromInt(IF i < 0 THEN 0 - i ELSE i), 0, FALSE).val

\* C comparisons on double: every comparison with a NaN is false
Cmp(a, b) ==
    IF IsInf(a) /\ IsInf(b)
    THEN (IF a.neg = b.neg THEN 0 ELSE IF a.neg THEN -1 ELSE 1)
    ELSE IF IsInf(a) THEN (IF a.neg THEN -1 ELSE 1)
    ELSE IF IsInf(b) THEN (IF b.neg THEN 1 ELSE -1)
    ELSE IF a.m = <<>> /\ b.m = <<>> THEN 0
    ELSE IF a.neg /\ ~b.neg THEN -1
    ELSE IF ~a.neg /\ b.neg THEN 1
    ELSE MagCmp(IF a.neg THEN b ELSE a, IF a.neg THEN a ELSE b)

FLt(a, b) == ~IsNaN(a) /\ ~IsNaN(b) /\ Cmp(a, b) < 0
FLe(a, b) == ~IsNaN(a) /\ ~IsNaN(b) /\ Cmp(a, b) <= 0
FGt(a, b) == ~IsNaN(a) /\ ~IsNaN(b) /\ Cmp(a, b) > 0
FGe(a, b) == ~IsNaN(a) /\ ~IsNaN(b) /\ Cmp(a, b) >= 0
FEq(a, b) == ~IsNaN(a) /\ ~IsNaN(b) /\ Cmp(a, b) = 0

(***************************************************************************)
(* C strings are sequences of characters; position Len(s) + 1 holds the    *)
(* terminating '\0'.  strtod and strtol return the value, the position     *)
(* endptr is left at, and the errno they set (0: errno left as it was).    *)
(***************************************************************************)
ERANGE == 34
EINVAL == 22

Digits == {"0", "1", "2", "3", "4", "5", "6", "7", "8", "9"}
DigitVal(c) ==
    CASE c = "0" -> 0 [] c = "1" -> 1 [] c = "2" -> 2 [] c = "3" -> 3
      [] c = "4" -> 4 [] c = "5" -> 5 [] c = "6" -> 6 [] c = "7" -> 7
      [] c = "8" -> 8 [] c = "9" -> 9

\* the character at position i, NUL at and past the terminator
NUL == "NUL"
At(s, i) == IF i >= 1 /\ i <= Len(s) THEN s[i] ELSE NUL

\* first position at or after i that holds no white space
RECURSIVE SkipSpace(_, _)
SkipSpace(s, i) == IF At(s, i) = " " THEN SkipSpace(s, i + 1) ELSE i

\* first position at or after i that holds no digit
RECURSIVE SkipDigits(_, _)
SkipDigits(s, i) == IF At(s, i) \in Digits THEN SkipDigits(s, i + 1) ELSE i

\* the position after an optional sign at i
SkipSign(s, i) == IF At(s, i) \in {"+", "-"} THEN i + 1 ELSE i

\* the decimal number written by the digits of s in positions i..j-1
RECURSIVE DigitsToBig(_, _, _)
DigitsToBig(s, i, j) ==
    IF j <= i THEN <<>>
    ELSE IF j = i + 1 THEN BigFromInt(DigitVal(s[i]))
    ELSE BigAdd(BigMul(DigitsToBig(s, i, (i + j) \div 2),
                       BigPow(<<10>>, j - (i + j) \div 2)),
                DigitsToBig(s, (i + j) \div 2, j))

\* the same as a machine integer, saturated at ExpCap
ExpCap == 100000
RECURSIVE DigitsToInt(_, _, _)
DigitsToInt(s, i, j) ==
    IF j <= i THEN 0
    ELSE Min(ExpCap, 10 * DigitsToInt(s, i, j - 1) + DigitVal(s[j - 1]))

\* number of decimal digits of a natural
RECURSIVE DecLenFrom(_, _)
DecLenFrom(a, k) ==
    IF BigCmp(a, BigPow(<<10>>, k)) < 0 THEN k ELSE DecLenFrom(a, k + 1)
DecLen(a) == IF a = <<>> THEN 0 ELSE DecLenFrom(a, 1)

\* a double below the normal range
IsTiny(v) == IsZero(v) \/ (IsFin(v) /\ v.e = MinExp /\ BigBitLen(v.m) < MantBits)

\* the range error strtod reports for the rounding r: overflow, or a result
\* below the normal range that is not exact
RangeErr(r) ==
    [val |-> r.val,
     err |-> IF r.over \/ (IsTiny(r.val) /\ r.inexact) THEN ERANGE ELSE 0]

\* d * 10^scale of decimal magnitude mag, the position of its first digit
DecScaled(neg, d, scale, mag) ==
    IF mag > 310 THEN [val |-> Inf(neg), err |-> ERANGE]
    ELSE IF mag < -330 THEN [val |-> Zero(neg), err |-> ERANGE]
    ELSE RangeErr(DivRound(neg, BigMul(d, BigPow(<<10>>, Max(scale, 0))),
                           BigPow(<<10>>, Max(0 - scale, 0)), 0))

\* the double nearest (-1)^neg * d * 10^scale, with strtod's range error
DecToDouble(neg, d, scale) ==
    IF d = <<>> THEN [val |-> Zero(neg), err |-> 0]
    ELSE DecScaled(neg, d, scale, DecLen(d) + scale)

\* An exponent part at j is an 'e', an optional sign and one digit or more.
ExpStart(s, j) == SkipSign(s, j + 1)
ExpEnd(s, j) == SkipDigits(s, ExpStart(s, j))
HasExp(s, j) == At(s, j) = "e" /\ ExpEnd(s, j) > ExpStart(s, j)
ExpVal(s, j) ==
    IF ~HasExp(s, j) THEN 0
    ELSE IF At(s, j + 1) = "-"
    THEN 0 - DigitsToInt(s, ExpStart(s, j), ExpEnd(s, j))
    ELSE DigitsToInt(s, ExpStart(s, j), ExpEnd(s, j))

\* With the integer digits in i1..j1-1 and the fraction ending before j2:
\* the number of fraction digits, and all the digits as one natural.
FracLen(j1, j2) == IF j2 > j1 THEN j2 - j1 - 1 ELSE 0
Mantissa(s, i1, j1, j2) ==
    BigAdd(BigMul(DigitsToBig(s, i1, j1), BigPow(<<10>>, FracLen(j1, j2))),
           DigitsToBig(s, j1 + 1, j2))

Converted(r, endp) == [val |-> r.val, endp |-> endp, err |-> r.err]

\* strtod past the digits: nothing to convert without a digit
ScanExp(s, noconv, neg, i1, j1, j2) ==
    IF (j1 - i1) + FracLen(j1, j2) = 0
    THEN [val |-> Zero(FALSE), endp |-> 1, err |-> noconv]
    ELSE Converted(DecToDouble(neg, Mantissa(s, i1, j1, j2),
                               ExpVal(s, j2) - FracLen(j1, j2)),
                   IF HasExp(s, j2) THEN ExpEnd(s, j2) ELSE j2)

\* strtod past the integer digits: an optional '.' and fraction digits
ScanFrac(s, noconv, neg, i1, j1) ==
    ScanExp(s, noconv, neg, i1, j1,
            IF At(s, j1) = "." THEN SkipDigits(s, j1 + 1) ELSE j1)

\* strtod past the sign: "inf", "nan" or a decimal number
ScanNumber(s, noconv, neg, i1) ==
    IF <<At(s, i1), At(s, i1 + 1), At(s, i1 + 2)>> = <<"i", "n", "f">>
    THEN [val |-> Inf(neg), endp |-> i1 + 3, err |-> 0]
    ELSE IF <<At(s, i1), At(s, i1 + 1), At(s, i1 + 2)>> = <<"n", "a", "n">>
    THEN [val |-> NaN, endp |-> i1 + 3, err |-> 0]
    ELSE ScanFrac(s, noconv, neg, i1, SkipDigits(s, i1))

\* strtod past the leading white space
ScanSign(s, noconv, i0) ==
    ScanNumber(s, noconv, At(s, i0) = "-", SkipSign(s, i0))

\* strtod(s, &endptr).  noconv is the errno of an implementation that finds
\* nothing to convert: C leaves it open between 0 and EINVAL.
StrToD(s, noconv) == ScanSign(s, noconv, SkipSpace(s, 1))

\* long is 64 bits wide
LongBits == 64

\* the largest magnitude of a long of the given sign
LongLimit(neg) ==
    IF neg THEN BigShl(<<1>>, LongBits - 1)
    ELSE BigSub(BigShl(<<1>>, LongBits - 1), <<1>>)

\* the magnitude d clamped to the range of long
LongClamp(neg, d, lim, endp) ==
    IF BigCmp(d, lim) > 0
    THEN [neg |-> neg, mag |-> lim, endp |-> endp, err |-> ERANGE]
    ELSE [neg |-> neg /\ d # <<>>, mag |-> d, endp |-> endp, err |-> 0]

\* strtol past the sign, with the digits in i1..j1-1
LongDigits(s, noconv, neg, i1, j1) ==
    IF j1 = i1
    THEN [neg |-> FALSE, mag |-> <<>>, endp |-> 1, err |-> noconv]
    ELSE LongClamp(neg, DigitsToBig(s, i1, j1), LongLimit(neg), j1)

\* strtol past the leading white space
LongSign(s, noconv, i0) ==
    LongDigits(s, noconv, At(s, i0) = "-", SkipSign(s, i0),
               SkipDigits(s, SkipSign(s, i0)))

\* strtol(s, &endptr, 10): the value as sign and magnitude
StrToL(s, noconv) == LongSign(s, noconv, SkipSpace(s, 1))

(***************************************************************************)
(* calculate_bond_metrics.  The locals of the call are one record.         *)
(***************************************************************************)
One == FromInt(1)

\* lines 38-54: the locals as the loop is entered with t = 1
Locals(fv, c, y, n, discount) ==
    [fv |-> fv, c |-> c, y |-> y, n |-> n,
     coupon_pmt |-> FMul(fv, c),
     price |-> Zero(FALSE),
     weighted_pv |-> Zero(FALSE),
     convexity_sum |-> Zero(FALSE),
     discount |-> discount,
     pv_factor |-> discount,
     t |-> 1]

\* a discount that grows with the yield, which the monotonicity of the
\* price must tell from line 51
DiscountInverted(y) == FAdd(One, y)

\* line 51
Discount(y) == FDiv(One, FAdd(One, y))

\* lines 39-42 for c and y of lines 40-41
Rates(p, c, y) ==
    Locals(p.face_value, c, y, p.periods * p.frequency, Discount(y))

CalcEnter(p) ==
    Rates(p, FDiv(p.coupon_rate, FromInt(p.frequency)),
          FDiv(p.ytm, FromInt(p.frequency)))

\* line 56
CashFlow(k) == IF k.t = k.n THEN FAdd(k.coupon_pmt, k.fv) ELSE k.coupon_pmt

\* line 57
PresentValue(k) == FMul(CashFlow(k), k.pv_factor)

\* a loop body that never advances pv_factor, which the comparison with
\* direct exponentiation must tell from lines 59-63
AccumulateStale(k, pv) ==
    [k EXCEPT !.price = FAdd(k.price, pv),
              !.weighted_pv = FAdd(k.weighted_pv, FMul(FromInt(k.t), pv)),
              !.convexity_sum =
                  FAdd(k.convexity_sum, FMul(FromInt(k.t * (k.t + 1)), pv)),
              !.t = k.t + 1]

\* lines 59-63 and the t++ of line 55
Accumulate(k, pv) ==
    [k EXCEPT !.price = FAdd(k.price, pv),
              !.weighted_pv = FAdd(k.weighted_pv, FMul(FromInt(k.t), pv)),
              !.convexity_sum =
                  FAdd(k.convexity_sum, FMul(FromInt(k.t * (k.t + 1)), pv)),
              !.pv_factor = FMul(k.pv_factor, k.discount),
              !.t = k.t + 1]

\* lines 56-63, one pass through the loop body
LoopBody(k) == Accumulate(k, PresentValue(k))

\* line 68
MacaulayDuration(p, k) ==
    FDiv(k.weighted_pv, FMul(k.price, FromInt(p.frequency)))

\* line 69
ModifiedDuration(p, mac) ==
    FDiv(mac, FAdd(One, FDiv(p.ytm, FromInt(p.frequency))))

\* line 70
Convexity(p, k) ==
    FDiv(k.convexity_sum,
         FMul(FMul(FMul(FMul(k.price, FromInt(p.frequency)),
                        FromInt(p.frequency)),
                   FAdd(One, k.y)),
              FAdd(One, k.y)))

\* line 71
Dv01(k, mod) == FDiv(FMul(mod, k.price), FromInt(10000))

\* lines 67-72
Metrics(p, k, mac, mod) ==
    [price |-> k.price,
     macaulay_duration |-> mac,
     modified_duration |-> mod,
     convexity |-> Convexity(p, k),
     dv01 |-> Dv01(k, mod),
     yield_to_maturity |-> p.ytm]

WithMacaulay(p, k, mac) == Metrics(p, k, mac, ModifiedDuration(p, mac))

CalcFinish(p, k) == WithMacaulay(p, k, MacaulayDuration(p, k))

(***************************************************************************)
(* print_results: the values handed to printf, and the label of line 174.  *)
(***************************************************************************)
FNeg(a) == IF IsNaN(a) THEN a ELSE [a EXCEPT !.neg = ~a.neg]

\* the constant 0.01 of lines 170 and 172
Hundredth == DecToDouble(FALSE, <<1>>, -2).val
\* the constant 0.5 of line 172
Half == DecToDouble(FALSE, <<5>>, -1).val

\* lines 174-176
Label(p, m) ==
    IF FGt(m.price, p.face_value) THEN "premium"
    ELSE IF FLt(m.price, p.face_value) THEN "discount"
    ELSE "par"

\* lines 144-176 with h for 0.01
Report(p, m, h) ==
    [face_value |-> p.face_value,
     coupon_pct |-> FMul(p.coupon_rate, FromInt(100)),
     coupon_rate |-> p.coupon_rate,
     ytm_pct |-> FMul(p.ytm, FromInt(100)),
     ytm |-> p.ytm,
     periods |-> p.periods,
     frequency |-> p.frequency,
     total_payments |-> p.periods * p.frequency,
     price |-> m.price,
     pct_of_par |-> FMul(FDiv(m.price, p.face_value), FromInt(100)),
     macaulay_duration |-> m.macaulay_duration,
     modified_duration |-> m.modified_duration,
     convexity |-> m.convexity,
     dv01 |-> m.dv01,
     price_change |-> FMul(FMul(FNeg(m.modified_duration), m.price), h),
     pct_change |-> FMul(FNeg(m.modified_duration), One),
     convexity_adj |-> FMul(FMul(FMul(FMul(Half, m.convexity), m.price), h), h),
     label |-> Label(p, m)]

PrintResults(p, m) == Report(p, m, Hundredth)

(***************************************************************************)
(* parse_arguments: the messages it writes and the test of each field.     *)
(***************************************************************************)
MsgUsage == "Usage: %s <face_value> <coupon_rate> <ytm> <years> <frequency>"
MsgFaceValue == "Error: Invalid face value. Must be positive number."
MsgCouponRate == "Error: Invalid coupon rate. Must be between 0 and 1."
MsgYtm == "Error: Invalid YTM. Must be non-negative."
MsgPeriods == "Error: Invalid years to maturity. Must be between 1 and 100."
MsgFrequency == "Error: Invalid frequency. Must be 1, 2, 4, or 12."

EXIT_SUCCESS == 0
EXIT_FAILURE == 1

\* errno != 0 || *endptr != '\0'
NotWhole(s, r) == r.err # 0 \/ At(s, r.endp) # NUL

\* the value of a long that lies in 0..LimbBase-1, else LimbBase
SmallLong(r) ==
    IF r.neg THEN -1
    ELSE IF r.mag = <<>> THEN 0
    ELSE IF Len(r.mag) = 1 THEN r.mag[1]
    ELSE LimbBase

\* line 93
FaceValueBad(s, r) == NotWhole(s, r) \/ FLe(r.val, Zero(FALSE))
\* line 101
CouponRateBad(s, r) ==
    NotWhole(s, r) \/ FLt(r.val, Zero(FALSE)) \/ FGt(r.val, One)
\* line 109
YtmBad(s, r) == NotWhole(s, r) \/ FLt(r.val, Zero(FALSE))
\* line 117
PeriodsBad(s, r) == NotWhole(s, r) \/ SmallLong(r) <= 0 \/ SmallLong(r) > 100
\* line 126
FrequencyBad(s, r) == NotWhole(s, r) \/ SmallLong(r) \notin {1, 2, 4, 12}

(***************************************************************************)
(* The program: main calls parse_arguments, calculate_bond_metrics and     *)
(* print_results.  argv[1] of the model is argv[0] of the program.         *)
(***************************************************************************)
VARIABLES
    argv,       \* the argument vector, argc = Len(argv)
    libc,       \* errno of this C library's strtod/strtol on no conversion
    pc,         \* the statement main has reached
    errno,
    params,     \* BondParams of main
    stored,     \* the fields of params written so far
    stderr,     \* the messages written to stderr, in order
    calc,       \* the locals of calculate_bond_metrics
    metrics,    \* BondMetrics of main
    stdout,     \* the reports written by print_results, in order
    exit_code,  \* the value main returned, -1 while it runs
    calls,      \* how often each function has been entered
    prev        \* ytm and price of an earlier run on the same bond, if any

vars == <<argv, libc, pc, errno, params, stored, stderr, calc, metrics,
          stdout, exit_code, calls, prev>>

argc == Len(argv)
Argv(i) == argv[i + 1]

NoParams ==
    [face_value |-> Zero(FALSE), coupon_rate |-> Zero(FALSE),
     ytm |-> Zero(FALSE), periods |-> 0, frequency |-> 0]
NoMetrics ==
    [price |-> Zero(FALSE), macaulay_duration |-> Zero(FALSE),
     modified_duration |-> Zero(FALSE), convexity |-> Zero(FALSE),
     dv01 |-> Zero(FALSE), yield_to_maturity |-> Zero(FALSE)]
NoCalc ==
    Locals(Zero(FALSE), Zero(FALSE), Zero(FALSE), 0, Zero(FALSE))

(***************************************************************************)
(* Argument vectors.                                                       *)
(***************************************************************************)
Prog == <<"b", "p">>

\* the most payments a run of the model makes (periods * frequency)
MaxPayments == 24

CouponRates == {<<"0">>, <<"0", ".", "0", "5">>, <<"0", ".", "0", "6">>, <<"1">>}
Ytms == {<<"0">>, <<"0", ".", "0", "5">>, <<"0", ".", "0", "6">>, <<"1">>, <<"1", "e", "6", "2">>}
Periods == {<<"1">>, <<"2">>, <<"3">>}
Frequencies == {<<"1">>, <<"2">>, <<"4">>, <<"1", "2">>}

\* vectors every field of which is a plain number in range
CalcVectors ==
    {<<Prog, <<"1", "0", "0", "0">>, b, c, de[1], de[2]>> :
        b \in CouponRates, c \in Ytms,
        de \in {x \in Periods \X Frequencies :
                  SmallLong(StrToL(x[1], 0)) * SmallLong(StrToL(x[2], 0))
                      <= MaxPayments}}

\* the two concrete scenarios of the specification
ScenarioVectors ==
    {<<Prog, <<"1", "0", "0", "0">>, <<"0", ".", "0", "5">>,
       <<"0", ".", "0", "5">>, <<"1", "0">>, <<"1">>>>,
     <<Prog, <<"1", "0", "0", "0">>, <<"0", ".", "0", "6">>,
       <<"0", ".", "0", "8">>, <<"5">>, <<"2">>>>}

\* face values at the top of the range of double
ExtremeVectors ==
    {<<Prog, <<"1", "e", "3", "0", "8">>, b, b, <<"1">>, <<"1">>>> :
        b \in {<<"1">>, <<"0">>}}
    \cup {<<Prog, <<"1", "e", "3", "0", "8">>, <<"1">>, <<"1", "e", "6", "2">>,
            <<"2">>, <<"1">>>>}

Baseline == <<Prog, <<"1", "0", "0", "0">>, <<"0", ".", "0", "5">>, <<"0", ".", "0", "5">>, <<"1">>, <<"1">>>>
\* what a user may type instead of the number of field i
BadArgs(i) ==
    CASE i = 1 -> {<<>>, <<"n", "a", "n">>, <<"i", "n", "f">>, <<"-", "5">>, <<"0">>, <<"5", "%">>}
      [] i = 2 -> {<<>>, <<"n", "a", "n">>, <<"2">>, <<"-", "1">>, <<"5", "%">>, <<" ", ".", "5">>}
      [] i = 3 -> {<<>>, <<"n", "a", "n">>, <<"i", "n", "f">>, <<"-", "1">>, <<"-", "0">>, <<"1", "e">>}
      [] i = 4 -> {<<>>, <<"0">>, <<"1", "0", "1">>, <<"2", ".", "5">>, <<"-", "3">>, <<" ", "7">>, <<"9", "9", "9", "9", "9", "9", "9", "9", "9", "9", "9", "9", "9", "9", "9", "9", "9", "9", "9", "9">>}
      [] i = 5 -> {<<>>, <<"3">>, <<"0">>, <<"1", "2", " ">>, <<"+", "4">>, <<"n", "a", "n">>}

Alternatives(i) == BadArgs(i) \cup {Baseline[i + 1]}

\* the baseline with one or two of its arguments replaced
ParseVectors ==
    UNION {{[[Baseline EXCEPT ![ij[1] + 1] = a] EXCEPT ![ij[2] + 1] = b] :
               a \in Alternatives(ij[1]), b \in Alternatives(ij[2])} :
           ij \in {x \in (1..5) \X (1..5) : x[1] < x[2]}}

\* too few and too many arguments
ArityVectors ==
    {<<Prog>>, SubSeq(Baseline, 1, 5), Baseline \o <<<<"7">>>>}

NoPrev == [set |-> FALSE, ytm |-> Zero(FALSE), price |-> Zero(FALSE)]

\* main is entered
Start ==
    /\ pc = "parse_arguments"
    /\ errno = 0
    /\ params = NoParams
    /\ stored = {}
    /\ stderr = <<>>
    /\ calc = NoCalc
    /\ metrics = NoMetrics
    /\ stdout = <<>>
    /\ exit_code = -1
    /\ calls = [parse |-> 0, calc |-> 0, print |-> 0]

\* The errno of a conversion that finds no number shows only where a field
\* holds none, so the vectors of plain numbers run with one choice of it.
Init ==
    /\ \/ /\ argv \in CalcVectors \cup ScenarioVectors \cup ExtremeVectors
          /\ libc = 0
       \/ /\ argv \in ParseVectors \cup ArityVectors
          /\ libc \in {0, EINVAL}
    /\ Start
    /\ prev = NoPrev

(***************************************************************************)
(* parse_arguments, one action for the argument count and one per field.   *)
(***************************************************************************)
Reject(msg) ==
    /\ stderr' = Append(stderr, msg)
    /\ pc' = "parse_failed"

\* lines 77-86
CheckArgc ==
    /\ pc = "parse_arguments"
    /\ calls' = [calls EXCEPT !.parse = @ + 1]
    /\ IF argc # 6
       THEN Reject(MsgUsage)
       ELSE pc' = "face_value" /\ stderr' = stderr
    /\ UNCHANGED <<argv, libc, errno, params, stored, calc, metrics, stdout,
                   exit_code, prev>>

\* lines 90-96
ParseFaceValue ==
    /\ pc = "face_value"
    /\ \E r \in {StrToD(Argv(1), libc)} :
           /\ errno' = r.err
           /\ params' = [params EXCEPT !.face_value = r.val]
           /\ stored' = stored \cup {"face_value"}
           /\ IF FaceValueBad(Argv(1), r)
              THEN Reject(MsgFaceValue)
              ELSE pc' = "coupon_rate" /\ stderr' = stderr
    /\ UNCHANGED <<argv, libc, calc, metrics, stdout, exit_code, calls, prev>>

\* lines 98-104
ParseCouponRate ==
    /\ pc = "coupon_rate"
    /\ \E r \in {StrToD(Argv(2), libc)} :
           /\ errno' = r.err
           /\ params' = [params EXCEPT !.coupon_rate = r.val]
           /\ stored' = stored \cup {"coupon_rate"}
           /\ IF CouponRateBad(Argv(2), r)
              THEN Reject(MsgCouponRate)
              ELSE pc' = "ytm" /\ stderr' = stderr
    /\ UNCHANGED <<argv, libc, calc, metrics, stdout, exit_code, calls, prev>>

\* lines 106-112
ParseYtm ==
    /\ pc = "ytm"
    /\ \E r \in {StrToD(Argv(3), libc)} :
           /\ errno' = r.err
           /\ params' = [params EXCEPT !.ytm = r.val]
           /\ stored' = stored \cup {"ytm"}
           /\ IF YtmBad(Argv(3), r)
              THEN Reject(MsgYtm)
              ELSE pc' = "periods" /\ stderr' = stderr
    /\ UNCHANGED <<argv, libc, calc, metrics, stdout, exit_code, calls, prev>>

\* lines 114-121
ParsePeriods ==
    /\ pc = "periods"
    /\ \E r \in {StrToL(Argv(4), libc)} :
           /\ errno' = r.err
           /\ IF PeriodsBad(Argv(4), r)
              THEN /\ Reject(MsgPeriods)
                   /\ UNCHANGED <<params, stored>>
              ELSE /\ params' = [params EXCEPT !.periods = SmallLong(r)]
                   /\ stored' = stored \cup {"periods"}
                   /\ pc' = "frequency"
                   /\ stderr' = stderr
    /\ UNCHANGED <<argv, libc, calc, metrics, stdout, exit_code, calls, prev>>

\* lines 123-132 and the call of line 191 that follows a return of 1
ParseFrequency ==
    /\ pc = "frequency"
    /\ \E r \in {StrToL(Argv(5), libc)} :
           /\ errno' = r.err
           /\ IF FrequencyBad(Argv(5), r)
              THEN /\ Reject(MsgFrequency)
                   /\ UNCHANGED <<params, stored>>
              ELSE /\ params' = [params EXCEPT !.frequency = SmallLong(r)]
                   /\ stored' = stored \cup {"frequency"}
                   /\ pc' = "calculate"
                   /\ stderr' = stderr
    /\ UNCHANGED <<argv, libc, calc, metrics, stdout, exit_code, calls, prev>>

\* a main that ignores what parse_arguments returned, which the ordering
\* of the steps must tell from lines 186-188
ReturnFailureIgnored ==
    /\ pc = "parse_failed"
    /\ pc' = "calculate"
    /\ UNCHANGED <<argv, libc, errno, params, stored, stderr, calc, metrics,
                   stdout, exit_code, calls, prev>>

\* lines 186-188
ReturnFailure ==
    /\ pc = "parse_failed"
    /\ exit_code' = EXIT_FAILURE
    /\ pc' = "exited"
    /\ UNCHANGED <<argv, libc, errno, params, stored, stderr, calc, metrics,
                   stdout, calls, prev>>

(***************************************************************************)
(* calculate_bond_metrics, one action per loop iteration.                  *)
(***************************************************************************)
\* line 191, lines 39-54
EnterCalculate ==
    /\ pc = "calculate"
    /\ calc' = CalcEnter(params)
    /\ calls' = [calls EXCEPT !.calc = @ + 1]
    /\ pc' = "loop"
    /\ UNCHANGED <<argv, libc, errno, params, stored, stderr, metrics, stdout,
                   exit_code, prev>>

\* lines 55-64, one iteration
Iterate ==
    /\ pc = "loop"
    /\ calc.t <= calc.n
    /\ calc' = LoopBody(calc)
    /\ UNCHANGED <<argv, libc, pc, errno, params, stored, stderr, metrics,
                   stdout, exit_code, calls, prev>>

\* lines 66-73
FinishCalculate ==
    /\ pc = "loop"
    /\ calc.t > calc.n
    /\ metrics' = CalcFinish(params, calc)
    /\ pc' = "print_results"
    /\ UNCHANGED <<argv, libc, errno, params, stored, stderr, calc, stdout,
                   exit_code, calls, prev>>

\* line 194, lines 135-179
CallPrintResults ==
    /\ pc = "print_results"
    /\ stdout' = Append(stdout, PrintResults(params, metrics))
    /\ calls' = [calls EXCEPT !.print = @ + 1]
    /\ pc' = "return"
    /\ UNCHANGED <<argv, libc, errno, params, stored, stderr, calc, metrics,
                   exit_code, prev>>

\* line 196
ReturnSuccess ==
    /\ pc = "return"
    /\ exit_code' = EXIT_SUCCESS
    /\ pc' = "exited"
    /\ UNCHANGED <<argv, libc, errno, params, stored, stderr, calc, metrics,
                   stdout, calls, prev>>

Next ==
    \/ CheckArgc
    \/ ParseFaceValue
    \/ ParseCouponRate
    \/ ParseYtm
    \/ ParsePeriods
    \/ ParseFrequency
    \/ ReturnFailure
    \/ EnterCalculate
    \/ Iterate
    \/ FinishCalculate
    \/ CallPrintResults
    \/ ReturnSuccess

Spec == Init /\ [][Next]_vars

(***************************************************************************)
(* Two runs of the program on one bond, the second with another yield:     *)
(* the first run's yield and price are kept in prev.                       *)
(***************************************************************************)
MonoYtms ==
    {<<"0">>, <<"0", ".", "0", "5">>,
     <<"0", ".", "0", "5", "0", "0", "0", "0", "0", "0", "0", "0", "0", "0",
       "0", "0", "0", "0", "1">>,
     <<"0", ".", "0", "6">>, <<"1", "e", "6", "2">>,
     <<"1", "e", "2", "0", "0">>}

\* bonds as face value, coupon rate, periods, frequency; the last of them
\* has a final cash flow beyond the range of double
MonoBonds ==
    {<<<<"1", "0", "0", "0">>, <<"0", ".", "0", "5">>, <<"1">>, <<"1">>>>,
     <<<<"1", "0", "0", "0">>, <<"0">>, <<"3">>, <<"2">>>>,
     <<<<"1", "0", "0", "0">>, <<"0", ".", "0", "5">>, <<"2">>, <<"4">>>>,
     <<<<"1", "e", "3", "0", "8">>, <<"1">>, <<"2">>, <<"1">>>>}

\* one vector that each test of parse_arguments rejects
MonoRejected ==
    {[Baseline EXCEPT ![i + 1] = <<"x">>] : i \in 1..5} \cup {<<Prog>>}

InitMono ==
    /\ argv \in {<<Prog, b[1], b[2], y, b[3], b[4]>> :
                      b \in MonoBonds, y \in MonoYtms} \cup MonoRejected
    /\ libc = 0
    /\ Start
    /\ prev = NoPrev

\* lines 181-197 once more: the program is run again with another yield
Rerun ==
    /\ pc = "exited"
    /\ exit_code = EXIT_SUCCESS
    /\ ~prev.set
    /\ \E y \in MonoYtms \ {Argv(3)} : argv' = [argv EXCEPT ![4] = y]
    /\ prev' = [set |-> TRUE, ytm |-> params.ytm, price |-> metrics.price]
    /\ pc' = "parse_arguments"
    /\ errno' = 0
    /\ params' = NoParams
    /\ stored' = {}
    /\ stderr' = <<>>
    /\ calc' = NoCalc
    /\ metrics' = NoMetrics
    /\ stdout' = <<>>
    /\ exit_code' = -1
    /\ calls' = [parse |-> 0, calc |-> 0, print |-> 0]
    /\ UNCHANGED libc

NextMono ==
    \/ CheckArgc
    \/ ParseFaceValue
    \/ ParseCouponRate
    \/ ParseYtm
    \/ ParsePeriods
    \/ ParseFrequency
    \/ ReturnFailure
    \/ EnterCalculate
    \/ Iterate
    \/ FinishCalculate
    \/ CallPrintResults
    \/ ReturnSuccess
    \/ Rerun

SpecMono == InitMono /\ [][NextMono]_vars

(***************************************************************************)
(* The domain of the specification, section 3, and what it is for an       *)
(* argument to be a number.                                                *)
(***************************************************************************)
\* face_value a positive real, coupon_rate a real in [0, 1], ytm a real >= 0,
\* periods in 1..100, frequency one of 1, 2, 4, 12
ValidParams(p) ==
    /\ IsFin(p.face_value) /\ FGt(p.face_value, Zero(FALSE))
    /\ IsFin(p.coupon_rate)
    /\ FGe(p.coupon_rate, Zero(FALSE)) /\ FLe(p.coupon_rate, One)
    /\ IsFin(p.ytm) /\ FGe(p.ytm, Zero(FALSE))
    /\ p.periods \in 1..100
    /\ p.frequency \in {1, 2, 4, 12}

HasDigit(s) == \E i \in 1..Len(s) : s[i] \in Digits

\* s is, in its entirety, a decimal number with a real value
IsReal(s, r) ==
    HasDigit(s) /\ At(s, r.endp) = NUL /\ r.err = 0 /\ IsFin(r.val)
\* s is, in its entirety, an integer that a long holds
IsInteger(s, r) == HasDigit(s) /\ At(s, r.endp) = NUL /\ r.err = 0

FieldNames == <<"face_value", "coupon_rate", "ytm", "periods", "frequency">>

\* field i of the vector v is not a number or is out of its range
RealFieldWrong(i, s, r) ==
    \/ ~IsReal(s, r)
    \/ i = 1 /\ ~FGt(r.val, Zero(FALSE))
    \/ i = 2 /\ ~(FGe(r.val, Zero(FALSE)) /\ FLe(r.val, One))
    \/ i = 3 /\ ~FGe(r.val, Zero(FALSE))
IntFieldWrong(i, s, r) ==
    \/ ~IsInteger(s, r)
    \/ i = 4 /\ SmallLong(r) \notin 1..100
    \/ i = 5 /\ SmallLong(r) \notin {1, 2, 4, 12}
FieldWrong(v, i) ==
    IF i <= 3 THEN RealFieldWrong(i, v[i + 1], StrToD(v[i + 1], 0))
    ELSE IntFieldWrong(i, v[i + 1], StrToL(v[i + 1], 0))

\* the vector holds five arguments, each a number in its range
InDomain(v) == Len(v) = 6 /\ \A i \in 1..5 : ~FieldWrong(v, i)

\* the first field that is wrong, 0 for a wrong count, 6 if there is none
FirstWrong(v) ==
    IF Len(v) # 6 THEN 0
    ELSE IF \A i \in 1..5 : ~FieldWrong(v, i) THEN 6
    ELSE CHOOSE i \in 1..5 :
             FieldWrong(v, i) /\ \A j \in 1..(i - 1) : ~FieldWrong(v, j)

Messages ==
    <<MsgUsage, MsgFaceValue, MsgCouponRate, MsgYtm, MsgPeriods, MsgFrequency>>

\* calculate_bond_metrics has returned
Finished == calls.calc > 0 /\ pc \in {"print_results", "return", "exited"}

(***************************************************************************)
(* C1.  parse_arguments reports success only if the vector holds exactly   *)
(* five arguments, each of them in its entirety a number in its range, so  *)
(* that calculate_bond_metrics is never invoked with parameters outside    *)
(* the domain.                                                             *)
(***************************************************************************)
ParseRejectsInvalid ==
    calls.calc > 0 => InDomain(argv) /\ ValidParams(params)

(***************************************************************************)
(* C8.  The steps of main are ordered parse, compute, print:               *)
(* calculate_bond_metrics runs at most once and only after parse_arguments *)
(* succeeded, print_results at most once and only after the calculator     *)
(* finished; the exit code is 0 if and only if the report was printed, and *)
(* when validation fails the exit code is not 0 and neither the calculator *)
(* nor the reporter has run.                                               *)
(***************************************************************************)
ParseSucceeded ==
    /\ calls.parse = 1
    /\ stderr = <<>>
    /\ stored = {FieldNames[i] : i \in 1..5}
    /\ pc \in {"calculate", "loop", "print_results", "return", "exited"}

MainOrdered ==
    /\ calls.parse <= 1 /\ calls.calc <= 1 /\ calls.print <= 1
    /\ calls.calc = 1 => ParseSucceeded
    /\ calls.print = 1 =>
           /\ calls.calc = 1
           /\ calc.t = calc.n + 1
           /\ metrics = CalcFinish(params, calc)
           /\ stdout = <<PrintResults(params, metrics)>>
    /\ calls.print = 0 => stdout = <<>>
    /\ pc = "exited" =>
           /\ exit_code \in {EXIT_SUCCESS, EXIT_FAILURE}
           /\ exit_code = 0 <=> calls.print = 1
    /\ pc # "exited" => exit_code = -1
    /\ stderr # <<>> =>
           /\ calls.calc = 0 /\ calls.print = 0
           /\ pc \in {"parse_failed", "exited"}
           /\ pc = "exited" => exit_code # 0

\* a run that printed its report and one that failed validation
MainOrderedWitness ==
    pc = "exited" /\ exit_code = 0 /\ calls.print = 1 /\ calls.calc = 1

(***************************************************************************)
(* C9.  Each validation failure has its own message and ends parsing at    *)
(* once: the fields are checked in the order face_value, coupon_rate, ytm, *)
(* periods, frequency; a failed run emits exactly one message, that of the *)
(* first field that is malformed or out of range (or of the argument       *)
(* count), and no later field is parsed or stored.                         *)
(***************************************************************************)
FirstFailureReported ==
    /\ \A i, j \in 1..6 : i # j => Messages[i] # Messages[j]
    /\ Len(stderr) <= 1
    /\ pc = "exited" /\ ~InDomain(argv) =>
           /\ stderr = <<Messages[FirstWrong(argv) + 1]>>
           /\ stored \subseteq {FieldNames[i] : i \in 1..FirstWrong(argv)}
           /\ exit_code # 0

(***************************************************************************)
(* Exact arithmetic on values (-1)^neg * m * 2^e, for comparing what the   *)
(* calculator returns with the real numbers the specification names.       *)
(***************************************************************************)
Exact(neg, m, e) == [neg |-> neg, m |-> m, e |-> e]
ExactNeg(x) == Exact(~x.neg, x.m, x.e)
ExactSub(a, b) == ExactAdd(a, ExactNeg(b))
\* x * k for a natural number k
ExactTimes(x, k) == Exact(x.neg, BigMul(x.m, BigFromInt(k)), x.e)
\* x^k
ExactPow(x, k) == Exact(x.neg /\ k % 2 = 1, BigPow(x.m, k), x.e * k)
\* |a| <= |b|
ExactLe(a, b) == MagCmp(a, b) <= 0

\* |a - b| <= |b| / k
WithinRel(a, b, k) == ExactLe(ExactTimes(ExactSub(a, b), k), b)

Billion == 10^9
Million == 10^6

(***************************************************************************)
(* C2.  Par bond: for valid parameters with coupon_rate == ytm the price   *)
(* returned equals face_value within 1e-6 relative.                        *)
(***************************************************************************)
ParBondAtPar ==
    Finished /\ ValidParams(params) /\ FEq(params.coupon_rate, params.ytm) =>
        IsFin(metrics.price)
            /\ WithinRel(metrics.price, params.face_value, Million)

(***************************************************************************)
(* C3.  For valid parameters coupon_rate > ytm implies price > face_value  *)
(* and coupon_rate < ytm implies price < face_value, and the label of the  *)
(* report is "premium" exactly when coupon_rate > ytm and "discount"       *)
(* exactly when coupon_rate < ytm.                                         *)
(***************************************************************************)
LabelFollowsRates ==
    stdout # <<>> /\ ValidParams(params) =>
        /\ FGt(params.coupon_rate, params.ytm) =>
               FGt(metrics.price, params.face_value)
        /\ FLt(params.coupon_rate, params.ytm) =>
               FLt(metrics.price, params.face_value)
        /\ stdout[1].label = "premium" <=>
               FGt(params.coupon_rate, params.ytm)
        /\ stdout[1].label = "discount" <=>
               FLt(params.coupon_rate, params.ytm)

(***************************************************************************)
(* C4.  Zero coupon: for valid parameters with coupon_rate == 0 the price  *)
(* is face_value / (1 + ytm/frequency)^(periods*frequency), here to one    *)
(* part in 10^9, and macaulay_duration equals exactly periods.             *)
(***************************************************************************)
\* price * (frequency + ytm)^n against face_value * frequency^n
RedemptionValue(p, n, price) ==
    WithinRel(ExactMul(price, ExactPow(ExactAdd(FromInt(p.frequency), p.ytm), n)),
              ExactMul(p.face_value, ExactPow(FromInt(p.frequency), n)),
              Billion)

ZeroCouponExact ==
    Finished /\ ValidParams(params) /\ IsZero(params.coupon_rate) =>
        /\ FEq(metrics.macaulay_duration, FromInt(params.periods))
        /\ IsFin(metrics.price)
        /\ RedemptionValue(params, params.periods * params.frequency,
                           metrics.price)

(***************************************************************************)
(* C5.  Duration bound: for valid parameters 0 < macaulay_duration <=      *)
(* periods, where macaulay_duration = weighted_pv / (price * frequency);   *)
(* the bound is reached only when coupon_rate == 0; modified_duration =    *)
(* macaulay_duration / (1 + ytm/frequency) is never larger than            *)
(* macaulay_duration.                                                      *)
(***************************************************************************)
DurationBounded ==
    Finished /\ ValidParams(params) =>
        /\ metrics.macaulay_duration = MacaulayDuration(params, calc)
        /\ metrics.modified_duration =
               ModifiedDuration(params, metrics.macaulay_duration)
        /\ FGt(metrics.macaulay_duration, Zero(FALSE))
        /\ FLe(metrics.macaulay_duration, FromInt(params.periods))
        /\ FEq(metrics.macaulay_duration, FromInt(params.periods)) =>
               IsZero(params.coupon_rate)
        /\ FLe(metrics.modified_duration, metrics.macaulay_duration)

(***************************************************************************)
(* C7.  calculate_bond_metrics is total on valid parameters: the loop ends *)
(* after exactly n = periods*frequency <= 1200 iterations, the price is    *)
(* strictly positive and no division of the final metrics has a zero       *)
(* divisor; a zero price is unreachable from inputs that parse_arguments   *)
(* accepts.                                                                *)
(***************************************************************************)
PricePositive ==
    /\ Finished => ~IsZero(metrics.price)
    /\ Finished /\ ValidParams(params) =>
           /\ calc.n = params.periods * params.frequency
           /\ calc.n <= 1200
           /\ calc.t = calc.n + 1
           /\ FGt(metrics.price, Zero(FALSE))
           /\ ~IsZero(FMul(metrics.price, FromInt(params.frequency)))
           /\ ~IsZero(FAdd(One, FDiv(params.ytm, FromInt(params.frequency))))

(***************************************************************************)
(* C10.  The loop against direct exponentiation.  The reference values are *)
(* exact: discount^t for the discount of line 51, the cash flow coupon_pmt *)
(* for t < n and coupon_pmt + face_value for t = n, and the three sums of  *)
(* w(t) * cf_t * discount^t with w(t) = 1, t and t * (t + 1).              *)
(***************************************************************************)
Weight(w, t) == CASE w = 0 -> 1 [] w = 1 -> t [] w = 2 -> t * (t + 1)

RefCashFlow(k, t) ==
    IF t = k.n THEN ExactAdd(k.coupon_pmt, k.fv)
    ELSE Exact(FALSE, k.coupon_pmt.m, k.coupon_pmt.e)

RECURSIVE RefSum(_, _, _)
\* the sum over j in t..n of w(j) * cf_j * discount^(j - t + 1), by Horner's
\* rule; for t = 1 the sum of w(j) * cf_j * discount^j
RefSum(k, t, w) ==
    IF t > k.n THEN Exact(FALSE, <<>>, 0)
    ELSE ExactMul(k.discount,
                  ExactAdd(ExactTimes(RefCashFlow(k, t), Weight(w, t)),
                           RefSum(k, t + 1, w)))

RECURSIVE RefWeights(_, _, _)
\* the sum over t..n of w(t) * (cf_t + 1)
RefWeights(k, t, w) ==
    IF t > k.n THEN Exact(FALSE, <<>>, 0)
    ELSE ExactAdd(ExactTimes(ExactAdd(RefCashFlow(k, t), One), Weight(w, t)),
                  RefWeights(k, t + 1, w))

\* what underflow can add to a product: 2^-1064 per unit
Underflow(a) == Exact(FALSE, a.m, IF a.m = <<>> THEN 0 ELSE a.e - 1064)

\* |x - ref| <= ref / 10^9 + 2^-1064 * a
Close(x, ref, a) ==
    /\ IsFin(x)
    /\ ExactLe(ExactTimes(ExactSub(x, ref), Billion),
               ExactAdd(ref, ExactTimes(Underflow(a), Billion)))

\* the final cash flow and the largest of the sums stay below 2^1023, so
\* that neither overflows
SumsInRange(k) ==
    /\ MagCmp(RefCashFlow(k, k.n), Exact(FALSE, <<1>>, 1023)) < 0
    /\ MagCmp(RefSum(k, 1, 2), Exact(FALSE, <<1>>, 1023)) < 0

\* the loop is at the start of an iteration
InLoop == pc = "loop" /\ calc.t <= calc.n
\* the loop has ended and line 67 is reached
AfterLoop == pc = "loop" /\ calc.t > calc.n

SecondRun ==
    /\ prev.set /\ Finished /\ ValidParams(params)
    /\ IsFin(prev.ytm) /\ FLt(prev.ytm, params.ytm)

PriceStrictlyDecreasing == SecondRun => FGt(prev.price, metrics.price)

\* C6 amended: with ytm1 < ytm2 the price computed for ytm2 is never
\* greater than the price computed for ytm1.
PriceNeverIncreasing == SecondRun => ~FGt(metrics.price, prev.price)

\* a second run at a larger yield whose price is the smaller
PriceNeverIncreasingWitness ==
    SecondRun /\ FGt(prev.price, metrics.price)

====
